---- MODULE Spec2Model ----
(***************************************************************************)
(* video_cut: the capability-aware transcode plan builder.                 *)
(*                                                                         *)
(*   state.py            process-wide environment (engine path, probe-tool *)
(*                       path, capability snapshot) and its cache file     *)
(*   hardware_detect.py  the capability probe of an engine                 *)
(*   utils.py            source probes, default output path, find_ffprobe  *)
(*   Args.py             plan construction (__post_init__) and command     *)
(*                       synthesis (build_command)                         *)
(*                                                                         *)
(* Text is modelled by what the code does with it.  A path or a time is a  *)
(* sequence of tokens: "/" and "." are the separator and the dot, ":" and  *)
(* " " the characters safe_time_str replaces, every other token is a run   *)
(* of characters holding none of these.  Str renders a token sequence as   *)
(* the string the command line receives.                                   *)
(***************************************************************************)
EXTENDS Integers, Sequences, FiniteSets, TLC

VARIABLES
    FFMPEG_PATH,    \* state.FFMPEG_PATH
    FFPROBE_PATH,   \* state.FFPROBE_PATH
    HARDWARE_INFO,  \* state.HARDWARE_INFO: [encoders, hwaccels, hwdecoders]
    cacheFile,      \* contents of env_cache.json
    engines,        \* what each installed engine answers to a capability probe
    pending,        \* the request the caller holds and what ffprobe answers for its input
    args,           \* the Args object built last, <<>> before
    cmd,            \* the argument list build_command returned for args, <<>> before
    lastOp,         \* the operation that produced this state
    call,           \* the inputs of that operation
    written,        \* what that operation did to the cache file
    prevCmd,        \* the command of the build just before, when args repeats its request
    adopted         \* the encoder set the last set_environment that returned with
                    \* encoders left in the state, {} before

vars == <<FFMPEG_PATH, FFPROBE_PATH, HARDWARE_INFO, cacheFile, engines, pending, args, cmd,
          lastOp, call, written, prevCmd, adopted>>

----------------------------------------------------------------------------
(* Bounds of the model *)

\* longest user-supplied output path, in tokens
MaxOutLen == 3
\* source bit rates 0 .. MaxProbeBps are all tried, besides the named ones
MaxProbeBps == 2100

----------------------------------------------------------------------------
(* Sequences of tokens *)

RECURSIVE Str(_)
Str(p) == IF p = <<>> THEN "" ELSE Head(p) \o Str(Tail(p))

\* str.rfind for a single character: the last index holding tok, 0 if none
RECURSIVE RFind(_, _)
RFind(p, tok) ==
    IF p = <<>> THEN 0
    ELSE IF p[Len(p)] = tok THEN Len(p)
    ELSE RFind(SubSeq(p, 1, Len(p) - 1), tok)

RECURSIVE SeqsUpTo(_, _)
SeqsUpTo(S, n) ==
    IF n = 0 THEN {<<>>}
    ELSE LET shorter == SeqsUpTo(S, n - 1)
         IN  shorter \cup {Append(s, x) : s \in shorter, x \in S}

\* str.lower, token by token
LowerTok(t) ==
    CASE t = "MP4" -> "mp4"
      [] t = "Mkv" -> "mkv"
      [] t = "HEVC" -> "hevc"
      [] OTHER -> t

Lower(p) == [i \in 1..Len(p) |-> LowerTok(p[i])]

----------------------------------------------------------------------------
(* os.path, as Args.py and utils.py call it *)

\* os.path.splitext: the extension starts at the last dot of the last
\* component, unless only dots precede it there
RECURSIVE AllDots(_, _, _)
AllDots(p, from, to) ==
    IF from >= to THEN TRUE
    ELSE IF p[from] # "." THEN FALSE
    ELSE AllDots(p, from + 1, to)

Splitext(p) ==
    LET sepIndex == RFind(p, "/")
        dotIndex == RFind(p, ".")
    IN  IF dotIndex > sepIndex /\ ~AllDots(p, sepIndex + 1, dotIndex)
        THEN <<SubSeq(p, 1, dotIndex - 1), SubSeq(p, dotIndex, Len(p))>>
        ELSE <<p, <<>> >>

RECURSIVE RStripSep(_)
RStripSep(p) ==
    IF p # <<>> /\ p[Len(p)] = "/" THEN RStripSep(SubSeq(p, 1, Len(p) - 1)) ELSE p

\* os.path.dirname
Dirname(p) ==
    LET head == SubSeq(p, 1, RFind(p, "/"))
    IN  IF RStripSep(head) # <<>> THEN RStripSep(head) ELSE head

\* os.path.basename
Basename(p) == SubSeq(p, RFind(p, "/") + 1, Len(p))

\* os.path.join of two parts
Join(a, b) ==
    IF b # <<>> /\ b[1] = "/" THEN b
    ELSE IF a = <<>> \/ a[Len(a)] = "/" THEN a \o b
    ELSE a \o <<"/">> \o b

\* str.split("/")
RECURSIVE Split(_)
Split(p) ==
    LET i == RFind(p, "/")
    IN  IF i = 0 THEN <<p>>
        ELSE Append(Split(SubSeq(p, 1, i - 1)), SubSeq(p, i + 1, Len(p)))

RECURSIVE NormComps(_, _, _)
NormComps(comps, new, rooted) ==
    IF comps = <<>> THEN new
    ELSE LET c == Head(comps)
             keep == \/ c # <<".", ".">>
                     \/ (~rooted /\ new = <<>>)
                     \/ (new # <<>> /\ new[Len(new)] = <<".", ".">>)
         IN  IF c = <<>> \/ c = <<".">> THEN NormComps(Tail(comps), new, rooted)
             ELSE IF keep THEN NormComps(Tail(comps), Append(new, c), rooted)
             ELSE IF new # <<>>
                  THEN NormComps(Tail(comps), SubSeq(new, 1, Len(new) - 1), rooted)
             ELSE NormComps(Tail(comps), new, rooted)

RECURSIVE JoinComps(_)
JoinComps(comps) ==
    IF comps = <<>> THEN <<>>
    ELSE IF Len(comps) = 1 THEN comps[1]
    ELSE comps[1] \o <<"/">> \o JoinComps(Tail(comps))

\* os.path.normpath
Normpath(p) ==
    LET slashes == IF p = <<>> \/ p[1] # "/" THEN <<>>
                   ELSE IF Len(p) >= 2 /\ p[2] = "/" /\ ~(Len(p) >= 3 /\ p[3] = "/")
                        THEN <<"/", "/">>
                   ELSE <<"/">>
        body == slashes \o JoinComps(NormComps(Split(p), <<>>, slashes # <<>>))
    IN  IF body = <<>> THEN <<".">> ELSE body

\* the working directory of the process
Cwd == <<"/", "home">>

\* os.path.abspath
Abspath(p) == Normpath(IF p # <<>> /\ p[1] = "/" THEN p ELSE Join(Cwd, p))

----------------------------------------------------------------------------
(* utils.py *)

SafeTok(t) ==
    CASE t = ":" -> "-"
      [] t = " " -> "_"
      [] OTHER -> t

safe_time_str(t) == [i \in 1..Len(t) |-> SafeTok(t[i])]

default_output_path(input_path, start, duration, convert_to_mp4) ==
    LET dname == Dirname(input_path)
        base == Splitext(Basename(input_path))[1]
        ext == IF convert_to_mp4 THEN <<".", "mp4">> ELSE Splitext(input_path)[2]
        start_safe == safe_time_str(start)
        out_name == IF duration # <<>>
                    THEN base \o <<"_">> \o start_safe \o <<"_len_">>
                              \o safe_time_str(duration) \o ext
                    ELSE base \o <<"_">> \o start_safe \o ext
    IN  Join(IF dname # <<>> THEN dname ELSE <<".">>, out_name)

\* is_ffmpeg_exist: `ffmpeg_cmd -version` runs
is_ffmpeg_exist(eng, ffmpeg_cmd) ==
    ffmpeg_cmd \in DOMAIN eng /\ eng[ffmpeg_cmd].runs

\* where an ffprobe beside the engine would be: the directory of
\* shutil.which(ffmpeg_cmd) or ffmpeg_cmd, "" when that has no directory
ProbeBeside(ffmpeg_cmd) ==
    CASE ffmpeg_cmd = "ffmpeg" -> "/usr/bin/ffprobe"
      [] ffmpeg_cmd = "/opt/ff/ffmpeg" -> "/opt/ff/ffprobe"
      [] OTHER -> ""

\* find_ffprobe: beside the engine first, then on PATH, else "".
\* tools.beside: a runnable ffprobe sits beside the engine; tools.onPath:
\* `ffprobe -version` runs
find_ffprobe(tools, ffmpeg_cmd) ==
    IF ProbeBeside(ffmpeg_cmd) # "" /\ tools.beside THEN ProbeBeside(ffmpeg_cmd)
    ELSE IF tools.onPath THEN "ffprobe"
    ELSE ""

NoTools == [beside |-> FALSE, onPath |-> FALSE]

\* probe_source_bitrate_bps: the stream's bit rate, else the container's,
\* else 0.  An answer is what one ffprobe run gave: kind "error" (the run
\* failed), "text" (output that is not all digits, such as N/A or nothing) or
\* "digits" with the number printed
probe_source_bitrate_bps(ffprobe_cmd, stream, container) ==
    IF ffprobe_cmd = "" THEN 0
    ELSE IF stream.kind = "digits" /\ stream.val > 0 THEN stream.val
    ELSE IF container.kind = "digits" /\ container.val > 0 THEN container.val
    ELSE 0

\* probe_source_codec: the first video stream's codec name, lower-cased, ""
\* standing for None.  answer.kind is "error" or "text", answer.name the
\* stripped output
probe_source_codec(ffprobe_cmd, answer) ==
    IF ffprobe_cmd = "" THEN ""
    ELSE IF answer.kind = "error" THEN ""
    ELSE LowerTok(answer.name)

----------------------------------------------------------------------------
(* hardware_detect.py *)

HwCodecs == <<"h264", "hevc">>
HwEncoders == <<"nvenc", "amf", "qsv", "vaapi", "videotoolbox">>
DecoderSuffixes == {"qsv", "cuvid", "vaapi", "videotoolbox", "dxva2", "d3d11va"}
AccelHeader == "Hardware acceleration methods:"

SeqRange(q) == {q[i] : i \in 1..Len(q)}

\* An engine build: whether it runs, and the three listings it prints.
\* encoders and decoders are the names listed, as <<codec, suffix>> pairs;
\* hwaccels is the lines of the -hwaccels listing
CodecName(d) == d[1] \o "_" \o d[2]

detect_hardware_encoders(build) ==
    IF ~build.runs THEN {}
    ELSE {e \in SeqRange(HwEncoders) :
            \E c \in SeqRange(HwCodecs) : <<c, e>> \in build.encoders}

detect_hwaccels(build) ==
    IF ~build.runs THEN {}
    ELSE {ln \in SeqRange(build.hwaccels) : ln # "" /\ ln # AccelHeader}

detect_hardware_decoders(build) ==
    IF ~build.runs THEN {}
    ELSE {CodecName(d) : d \in {x \in build.decoders : x[2] \in DecoderSuffixes}}

NotInstalled == [runs |-> FALSE, encoders |-> {}, hwaccels |-> <<>>, decoders |-> {}]

detect_all_hardwares(eng, ffmpeg_cmd) ==
    LET build == IF ffmpeg_cmd \in DOMAIN eng THEN eng[ffmpeg_cmd] ELSE NotInstalled
    IN  [encoders |-> detect_hardware_encoders(build),
         hwaccels |-> detect_hwaccels(build),
         hwdecoders |-> detect_hardware_decoders(build)]

----------------------------------------------------------------------------
(* state.py *)

EmptyInfo == [encoders |-> {}, hwaccels |-> {}, hwdecoders |-> {}]

\* a JSON number in a list of the cache file, where a name is expected
JsonNumber == "1"

\* sorted(S) raises TypeError when S holds a number among strings
Sortable(S) == JsonNumber \notin S \/ S = {JsonNumber}

\* every name a listing can hold, in the order sorted() gives
NameOrder ==
    <<JsonNumber, AccelHeader, "amf", "cuda", "d3d11va", "dxva2", "h264_cuvid", "h264_d3d11va",
      "h264_dxva2", "h264_qsv", "h264_vaapi", "h264_videotoolbox", "hevc_cuvid",
      "nvenc", "opencl", "qsv", "vaapi", "videotoolbox">>

Sorted(S) == SelectSeq(NameOrder, LAMBDA x : x \in S)

\* env_cache.json: kind "absent" (no file), "garbage" (not a JSON object) or
\* "json"; typed is FALSE when a list field does not hold a list
NoFile == [kind |-> "absent", ffmpeg |-> "", ffprobe |-> "", encoders |-> <<>>,
           hwaccels |-> <<>>, hwdecoders |-> <<>>, typed |-> TRUE]
Garbage == [NoFile EXCEPT !.kind = "garbage"]

\* the record save_environment dumps
CacheRecord(st) ==
    [kind |-> "json", ffmpeg |-> st.ffmpeg, ffprobe |-> st.ffprobe,
     encoders |-> Sorted(st.hw.encoders),
     hwaccels |-> Sorted(st.hw.hwaccels),
     hwdecoders |-> Sorted(st.hw.hwdecoders),
     typed |-> TRUE]

\* save_environment: errors are swallowed.  outcome "ok": the file holds the
\* record; "open_fails": the file is untouched; "write_fails": the file was
\* opened for writing and is left cut short
save_environment(st, file, outcome) ==
    CASE outcome = "ok" -> CacheRecord(st)
      [] outcome = "open_fails" -> file
      [] OTHER -> Garbage

\* load_environment: [ok, st], the result and the globals it leaves behind
load_environment(st, file, eng, tools) ==
    IF file.kind # "json" THEN [ok |-> FALSE, st |-> st]
    ELSE LET ffmpeg_path == IF file.ffmpeg # "" THEN file.ffmpeg ELSE "ffmpeg"
             paths == [st EXCEPT !.ffmpeg = ffmpeg_path,
                                 !.ffprobe = IF file.ffprobe # "" THEN file.ffprobe
                                             ELSE find_ffprobe(tools, ffmpeg_path)]
             loaded == [paths EXCEPT !.hw =
                          [encoders |-> SeqRange(file.encoders),
                           hwaccels |-> {x \in SeqRange(file.hwaccels) : x # AccelHeader},
                           hwdecoders |-> SeqRange(file.hwdecoders)]]
         IN  IF ~is_ffmpeg_exist(eng, ffmpeg_path) THEN [ok |-> FALSE, st |-> st]
             ELSE IF ~file.typed THEN [ok |-> FALSE, st |-> paths]
             ELSE IF loaded.hw.encoders = {} THEN [ok |-> FALSE, st |-> loaded]
             ELSE [ok |-> TRUE, st |-> loaded]

\* set_environment up to the decision to save: the globals it leaves.
\* hwinfo is a set holding the caller's capabilities, empty for None
set_environment_state(st, ffmpeg_path, ffprobe_path, hwinfo, file, eng, tools) ==
    LET probe == IF ffprobe_path # "" THEN ffprobe_path
                 ELSE find_ffprobe(tools, ffmpeg_path)
        first == [st EXCEPT !.ffmpeg = ffmpeg_path, !.ffprobe = probe]
        detected == IF hwinfo # {} THEN CHOOSE h \in hwinfo : TRUE
                    ELSE detect_all_hardwares(eng, ffmpeg_path)
        cached == load_environment(first, file, eng, tools)
    IN  IF detected.encoders # {} THEN [first EXCEPT !.hw = detected]
        ELSE IF cached.ok /\ cached.st.hw.encoders # {}
             THEN [cached.st EXCEPT !.ffmpeg = ffmpeg_path, !.ffprobe = probe]
        ELSE [cached.st EXCEPT !.hw = detected]

\* a slip: the state is saved whatever it holds
MustSave_always(st) == TRUE

\* line 46: only a state with encoders is saved
MustSave(st) == st.hw.encoders # {}

\* lines 51-57: the record is put together outside the try, so a TypeError
\* of sorted() leaves save_environment and set_environment
SaveRaises(st) ==
    ~(Sortable(st.hw.encoders) /\ Sortable(st.hw.hwaccels) /\ Sortable(st.hw.hwdecoders))

\* set_environment: [st, file, saved, raised], the globals, the cache file,
\* whether save_environment wrote and whether the call raised
set_environment(st, ffmpeg_path, ffprobe_path, hwinfo, file, eng, tools, outcome) ==
    LET new == set_environment_state(st, ffmpeg_path, ffprobe_path, hwinfo, file, eng, tools)
        raised == MustSave(new) /\ SaveRaises(new)
    IN  [st |-> new,
         file |-> IF MustSave(new) /\ ~raised THEN save_environment(new, file, outcome)
                  ELSE file,
         saved |-> MustSave(new) /\ ~raised,
         raised |-> raised]

----------------------------------------------------------------------------
(* Args.py *)

PREFERRED_ENCODERS == <<"nvenc", "amf", "qsv", "vaapi", "videotoolbox", "cpu">>

\* the first element of order that is in S, else dflt (for ... else)
RECURSIVE FirstIn(_, _, _)
FirstIn(order, S, dflt) ==
    IF order = <<>> THEN dflt
    ELSE IF Head(order) \in S THEN Head(order)
    ELSE FirstIn(Tail(order), S, dflt)

RECURSIVE Reverse(_)
Reverse(q) == IF q = <<>> THEN <<>> ELSE Append(Reverse(Tail(q)), Head(q))

\* a slip: the priority list walked from its end (cpu left last)
choose_encoder_reversed(hw) ==
    FirstIn(Reverse(SubSeq(PREFERRED_ENCODERS, 1, 5)), hw.encoders, "cpu")

choose_encoder(hw) == FirstIn(PREFERRED_ENCODERS, hw.encoders, "cpu")

priorities(encoder) ==
    CASE encoder = "nvenc" -> <<"cuda">>
      [] encoder = "amf" -> <<"d3d11va", "dxva2">>
      [] encoder = "qsv" -> <<"qsv", "d3d11va", "dxva2">>
      [] encoder = "vaapi" -> <<"vaapi">>
      [] encoder = "videotoolbox" -> <<"videotoolbox">>
      [] OTHER -> <<>>

\* a slip: any acceleration the engine lists, whatever the encoder's family
select_hwaccel_any(chosen_encoder, hw) ==
    IF hw.hwaccels = {} \/ chosen_encoder = "cpu" THEN ""
    ELSE FirstIn(<<"cuda", "qsv", "d3d11va", "dxva2", "vaapi", "videotoolbox">>,
                 hw.hwaccels, "")

\* Args._select_hwaccel, "" standing for None
select_hwaccel(chosen_encoder, hw) ==
    IF hw.hwaccels = {} THEN ""
    ELSE FirstIn(priorities(chosen_encoder), hw.hwaccels, "")

\* a slip: dxva2 tried before d3d11va
preferred_decoders_swapped(codec, chosen_hwaccel) ==
    CASE chosen_hwaccel = "cuda" -> <<codec \o "_cuvid">>
      [] chosen_hwaccel \in {"d3d11va", "dxva2"} ->
            <<codec \o "_dxva2", codec \o "_d3d11va">>
      [] chosen_hwaccel \in {"qsv", "vaapi", "videotoolbox"} ->
            <<codec \o "_" \o chosen_hwaccel>>
      [] OTHER -> <<>>

preferred_decoders(codec, chosen_hwaccel) ==
    CASE chosen_hwaccel = "cuda" -> <<codec \o "_cuvid">>
      [] chosen_hwaccel \in {"d3d11va", "dxva2"} ->
            <<codec \o "_d3d11va", codec \o "_dxva2">>
      [] chosen_hwaccel \in {"qsv", "vaapi", "videotoolbox"} ->
            <<codec \o "_" \o chosen_hwaccel>>
      [] OTHER -> <<>>

\* Args._select_hwdecoder, "" standing for None
select_hwdecoder(source_codec_name, chosen_hwaccel, hw) ==
    IF source_codec_name = "" \/ hw.hwdecoders = {} THEN ""
    ELSE FirstIn(preferred_decoders(source_codec_name, chosen_hwaccel), hw.hwdecoders, "")

\* a slip: .mp4 appended to the path, its extension left in place
resolve_output_appended(input, start, duration, output, convert_mp4) ==
    LET out == IF output = <<>>
               THEN default_output_path(input, start, duration, convert_mp4)
               ELSE output
    IN  IF convert_mp4 /\ Lower(Splitext(out)[2]) # <<".", "mp4">>
        THEN out \o <<".", "mp4">>
        ELSE out

\* the output path __post_init__ settles on
resolve_output(input, start, duration, output, convert_mp4) ==
    LET out == IF output = <<>>
               THEN default_output_path(input, start, duration, convert_mp4)
               ELSE output
    IN  IF convert_mp4 /\ Lower(Splitext(out)[2]) # <<".", "mp4">>
        THEN Splitext(out)[1] \o <<".", "mp4">>
        ELSE out

DefaultBitrate == 100000

\* a slip: the default given in kbps where bps are meant
source_bitrate_kbps_default(mode, probed) ==
    IF mode # "precise" THEN 0
    ELSE IF probed = 0 THEN 100
    ELSE probed

source_bitrate(mode, probed) ==
    IF mode # "precise" THEN 0
    ELSE IF probed = 0 THEN DefaultBitrate
    ELSE probed

\* a slip: the environment probed again for every plan
NeedsReprobe_always(st) == st.ffmpeg # ""

\* lines 47-53: past the engine-path check, a state without encoders is
\* probed once more
NeedsReprobe(st) == st.ffmpeg # "" /\ st.hw.encoders = {}

\* Args.__post_init__ past the engine-path check and the re-probe: the
\* object, from the request, the source probes' answers and the globals
post_init(req, ans, st) ==
    LET input == Abspath(req.input)
        encoder == choose_encoder(st.hw)
        codec == probe_source_codec(st.ffprobe, ans.codec)
        hwaccel == select_hwaccel(encoder, st.hw)
    IN  [input |-> input,
         start |-> req.start,
         duration |-> req.duration,
         mode |-> req.mode,
         output |-> resolve_output(input, req.start, req.duration, req.output,
                                   req.convert_mp4),
         convert_mp4 |-> req.convert_mp4,
         dry_run |-> req.dry_run,
         chosen_encoder |-> encoder,
         source_bitrate_bps |->
             source_bitrate(req.mode,
                            probe_source_bitrate_bps(st.ffprobe, ans.stream, ans.container)),
         source_codec_name |-> codec,
         chosen_hwaccel |-> hwaccel,
         chosen_hwdecoder |-> select_hwdecoder(codec, hwaccel, st.hw)]

hwaccel_args(chosen_hwaccel) ==
    IF chosen_hwaccel = "" THEN <<>>
    ELSE <<"-hwaccel", chosen_hwaccel>> \o
         (CASE chosen_hwaccel = "cuda" -> <<"-hwaccel_output_format", "cuda">>
            [] chosen_hwaccel = "vaapi" -> <<"-hwaccel_output_format", "vaapi">>
            [] chosen_hwaccel = "qsv" -> <<"-hwaccel_output_format", "qsv">>
            [] chosen_hwaccel \in {"d3d11va", "dxva2"} ->
                  <<"-hwaccel_output_format", "d3d11">>
            [] OTHER -> <<>>)

\* a slip: H.264 names whatever the compatibility flag
encoder_name_h264(chosen_encoder, convert_mp4) ==
    IF chosen_encoder = "cpu" THEN "libx264" ELSE "h264_" \o chosen_encoder

\* lines 155-159: enc_name
encoder_name(chosen_encoder, convert_mp4) ==
    IF chosen_encoder = "cpu"
    THEN (IF convert_mp4 THEN "libx264" ELSE "libx265")
    ELSE (IF convert_mp4 THEN "h264" ELSE "hevc") \o "_" \o chosen_encoder

\* a slip: the maximum rate taken from the bit rate in one division
rate_args_one_stage(source_bitrate_bps) ==
    LET kbps == source_bitrate_bps \div 1000
    IN  <<"-b:v", ToString(kbps) \o "k",
          "-maxrate", ToString((source_bitrate_bps * 12) \div 10000) \o "k",
          "-bufsize", ToString(kbps * 2) \o "k">>

rate_args(source_bitrate_bps) ==
    LET kbps == source_bitrate_bps \div 1000
    IN  <<"-b:v", ToString(kbps) \o "k",
          "-maxrate", ToString((kbps * 12) \div 10) \o "k",
          "-bufsize", ToString(kbps * 2) \o "k">>

tuning_args(chosen_encoder) ==
    CASE chosen_encoder = "nvenc" -> <<"-rc", "vbr_hq", "-preset", "p5">>
      [] chosen_encoder = "amf" -> <<"-quality", "balanced">>
      [] chosen_encoder = "qsv" -> <<"-preset", "medium">>
      [] chosen_encoder = "vaapi" -> <<"-vf", "format=nv12,hwupload">>
      [] chosen_encoder = "videotoolbox" -> <<>>
      [] chosen_encoder = "cpu" -> <<"-preset", "slow">>
      [] OTHER -> <<>>

duration_args(duration) ==
    IF duration # <<>> THEN <<"-t", Str(duration)>> ELSE <<>>

\* a slip: the input opened before the seek, as Precise mode does
fast_args_input_first(a) ==
    <<"-i", Str(a.input), "-ss", Str(a.start)>> \o duration_args(a.duration) \o
    (IF a.convert_mp4 THEN <<"-c:v", "libx264", "-preset", "veryfast", "-crf", "20">>
     ELSE <<"-c:v", "copy">>)

\* lines 123-131: case "fast"
fast_args(a) ==
    <<"-ss", Str(a.start), "-i", Str(a.input)>> \o duration_args(a.duration) \o
    (IF a.convert_mp4 THEN <<"-c:v", "libx264", "-preset", "veryfast", "-crf", "20">>
     ELSE <<"-c:v", "copy">>)

precise_args(a) ==
    hwaccel_args(a.chosen_hwaccel) \o
    (IF a.chosen_hwdecoder # "" THEN <<"-c:v", a.chosen_hwdecoder>> ELSE <<>>) \o
    <<"-i", Str(a.input), "-ss", Str(a.start)>> \o duration_args(a.duration) \o
    <<"-c:v", encoder_name(a.chosen_encoder, a.convert_mp4)>> \o
    rate_args(a.source_bitrate_bps) \o
    tuning_args(a.chosen_encoder)

trailer_args(a) ==
    (IF a.convert_mp4 THEN <<"-c:a", "aac", "-b:a", "160k">> ELSE <<"-c:a", "copy">>) \o
    <<"-y", "-fflags", "+genpts", "-avoid_negative_ts", "make_zero",
      "-reset_timestamps", "1", "-movflags", "+faststart", Str(a.output)>>

\* a slip: the output path placed before the trailer flags
build_command_output_early(a, ffmpeg_path) ==
    <<ffmpeg_path>> \o
    (CASE a.mode = "fast" -> fast_args(a)
       [] a.mode = "precise" -> precise_args(a)
       [] OTHER -> <<>>) \o
    <<Str(a.output)>> \o SubSeq(trailer_args(a), 1, Len(trailer_args(a)) - 1)

\* Args.build_command
build_command(a, ffmpeg_path) ==
    <<ffmpeg_path>> \o
    (CASE a.mode = "fast" -> fast_args(a)
       [] a.mode = "precise" -> precise_args(a)
       [] OTHER -> <<>>) \o
    trailer_args(a)

----------------------------------------------------------------------------
(* The state machine *)

State == [ffmpeg |-> FFMPEG_PATH, ffprobe |-> FFPROBE_PATH, hw |-> HARDWARE_INFO]

NoCall == [op |-> "none"]
NoWrite == [saved |-> FALSE, outcome |-> "none", data |-> NoFile]

\* state.py as imported (lines 8-14), with whatever cache file and engines
\* the machine holds
InitWith(files, installs, calls) ==
    /\ pending \in calls
    /\ FFMPEG_PATH = "ffmpeg"
    /\ FFPROBE_PATH = "ffprobe"
    /\ HARDWARE_INFO = EmptyInfo
    /\ cacheFile \in files
    /\ engines \in installs
    /\ args = <<>>
    /\ cmd = <<>>
    /\ lastOp = "init"
    /\ call = NoCall
    /\ written = NoWrite
    /\ prevCmd = <<>>
    /\ adopted = {}

\* what an operation did to the cache file
Written(r, outcome) ==
    [saved |-> r.saved,
     outcome |-> IF r.saved THEN outcome ELSE "none",
     data |-> IF r.saved THEN CacheRecord(r.st) ELSE NoFile]

\* the encoder set a set_environment call leaves to later ones
Adopted(r) ==
    IF ~r.raised /\ r.st.hw.encoders # {} THEN r.st.hw.encoders ELSE adopted

\* state.set_environment(ffmpeg_path, ffprobe_path, hwinfo).  The first two
\* conjuncts leave out inputs that are not consulted: the outcome of a save
\* that does not run, the tools when find_ffprobe's answer changes nothing
SetEnvironment(ffmpeg_path, ffprobe_path, hwinfo, tools, outcome) ==
    \E r \in {set_environment(State, ffmpeg_path, ffprobe_path, hwinfo, cacheFile,
                              engines, tools, outcome)} :
        /\ r.saved \/ outcome = "ok"
        /\ tools = NoTools \/ r # set_environment(State, ffmpeg_path, ffprobe_path, hwinfo,
                                                  cacheFile, engines, NoTools, outcome)
        /\ FFMPEG_PATH' = r.st.ffmpeg
        /\ FFPROBE_PATH' = r.st.ffprobe
        /\ HARDWARE_INFO' = r.st.hw
        /\ cacheFile' = r.file
        /\ lastOp' = IF r.raised THEN "set_environment_raised" ELSE "set_environment"
        /\ call' = [op |-> "set_environment", ffmpeg_path |-> ffmpeg_path,
                    ffprobe_path |-> ffprobe_path, hwinfo |-> hwinfo, tools |-> tools,
                    detected |-> IF hwinfo # {} THEN CHOOSE h \in hwinfo : TRUE
                                 ELSE detect_all_hardwares(engines, ffmpeg_path)]
        /\ written' = Written(r, outcome)
        /\ prevCmd' = <<>>
        /\ adopted' = Adopted(r)
        /\ UNCHANGED <<engines, pending, args, cmd>>

\* state.load_environment()
LoadEnvironment(tools) ==
    \E r \in {load_environment(State, cacheFile, engines, tools)} :
        /\ tools = NoTools \/ r # load_environment(State, cacheFile, engines, NoTools)
        /\ FFMPEG_PATH' = r.st.ffmpeg
        /\ FFPROBE_PATH' = r.st.ffprobe
        /\ HARDWARE_INFO' = r.st.hw
        /\ lastOp' = "load_environment"
        /\ call' = [op |-> "load_environment", tools |-> tools, ok |-> r.ok]
        /\ written' = NoWrite
        /\ prevCmd' = <<>>
        /\ UNCHANGED <<cacheFile, engines, pending, args, cmd, adopted>>

\* the machine changes under the program: an engine is installed, removed,
\* replaced, or its hardware comes up or goes away
EngineChange(path, build) ==
    /\ engines[path] # build
    /\ engines' = [engines EXCEPT ![path] = build]
    /\ lastOp' = "engine_change"
    /\ call' = [op |-> "engine_change", path |-> path]
    /\ written' = NoWrite
    /\ prevCmd' = <<>>
    /\ UNCHANGED <<FFMPEG_PATH, FFPROBE_PATH, HARDWARE_INFO, cacheFile, pending, args, cmd,
                   adopted>>

\* the caller takes up another request
Submit(c) ==
    /\ pending # c
    /\ pending' = c
    /\ lastOp' = "submit"
    /\ call' = NoCall
    /\ written' = NoWrite
    /\ prevCmd' = <<>>
    /\ UNCHANGED <<FFMPEG_PATH, FFPROBE_PATH, HARDWARE_INFO, cacheFile, engines, args, cmd,
                   adopted>>

\* Args(...): __post_init__ on the pending request
Construct(tools, outcome) ==
    LET req == pending.req
        ans == pending.ans
        reprobe == NeedsReprobe(State)
    IN  \E r \in {IF reprobe
                  THEN set_environment(State, FFMPEG_PATH, FFPROBE_PATH, {}, cacheFile,
                                       engines, tools, outcome)
                  ELSE [st |-> State, file |-> cacheFile, saved |-> FALSE,
                        raised |-> FALSE]} :
        /\ r.saved \/ outcome = "ok"
        /\ tools = NoTools \/
             (reprobe /\ r # set_environment(State, FFMPEG_PATH, FFPROBE_PATH, {}, cacheFile,
                                             engines, NoTools, outcome))
        /\ FFMPEG_PATH' = r.st.ffmpeg
        /\ FFPROBE_PATH' = r.st.ffprobe
        /\ HARDWARE_INFO' = r.st.hw
        /\ cacheFile' = r.file
        /\ IF FFMPEG_PATH = "" \/ r.raised
           THEN /\ args' = <<>>
                /\ lastOp' = "construct_failed"
                /\ prevCmd' = <<>>
           ELSE /\ args' = <<post_init(req, ans, r.st)>>
                /\ lastOp' = "construct"
                /\ prevCmd' = IF /\ lastOp = "build_command"
                                 /\ call.op = "construct"
                                 /\ call.req = req
                                 /\ call.ans = ans
                                 /\ call.tools = tools
                              THEN cmd
                              ELSE <<>>
        /\ cmd' = <<>>
        /\ call' = [op |-> "construct", req |-> req, ans |-> ans, reprobed |-> reprobe,
                    tools |-> tools]
        /\ written' = Written(r, outcome)
        /\ adopted' = IF reprobe THEN Adopted(r) ELSE adopted
        /\ UNCHANGED <<engines, pending>>

\* args.build_command()
BuildCommand ==
    /\ args # <<>>
    /\ cmd' = build_command(args[1], FFMPEG_PATH)
    /\ lastOp' = "build_command"
    /\ written' = NoWrite
    /\ UNCHANGED <<FFMPEG_PATH, FFPROBE_PATH, HARDWARE_INFO, cacheFile, engines, pending,
                   args, call, prevCmd, adopted>>

----------------------------------------------------------------------------
(* Inputs *)

EnginePaths == {"ffmpeg", "/opt/ff/ffmpeg"}

\* a build without hardware encoders
SoftBuild == [runs |-> TRUE, encoders |-> {<<"libx264", "">>},
              hwaccels |-> <<AccelHeader>>, decoders |-> {<<"h264", "">>}]
\* a build with NVENC
NvBuild == [runs |-> TRUE,
            encoders |-> {<<"libx264", "">>, <<"h264", "nvenc">>, <<"hevc", "nvenc">>},
            hwaccels |-> <<AccelHeader, "cuda", "opencl", "">>,
            decoders |-> {<<"h264", "">>, <<"h264", "cuvid">>, <<"hevc", "cuvid">>}]
\* a Windows build with AMF and Quick Sync, HEVC only for Quick Sync
WinBuild == [runs |-> TRUE,
             encoders |-> {<<"h264", "amf">>, <<"hevc", "qsv">>},
             hwaccels |-> <<AccelHeader, "dxva2", "d3d11va">>,
             decoders |-> {<<"h264", "dxva2">>, <<"mpeg2", "mmal">>}]

Builds == {NotInstalled, SoftBuild, NvBuild, WinBuild}
EnvBuilds == {NotInstalled, SoftBuild, NvBuild}

NvInfo == [encoders |-> {"nvenc"}, hwaccels |-> {"cuda", "opencl"},
           hwdecoders |-> {"h264_cuvid", "hevc_cuvid"}]

ToolsChoices == {[beside |-> TRUE, onPath |-> TRUE], [beside |-> FALSE, onPath |-> TRUE],
                 NoTools}
SaveOutcomes == {"ok", "open_fails", "write_fails"}

\* cache files a start can find: none, an unreadable one, and JSON objects
\* written by an earlier run or by hand
JsonFiles ==
    {[kind |-> "json", ffmpeg |-> f, ffprobe |-> p, encoders |-> e,
      hwaccels |-> <<AccelHeader, "cuda">>, hwdecoders |-> <<"h264_cuvid">>, typed |-> t] :
        f \in {"", "/opt/ff/ffmpeg"}, p \in {"", "/opt/ff/ffprobe"},
        e \in {<<>>, <<"nvenc">>}, t \in BOOLEAN}
\* a record with a number among the encoder names
MixedFile ==
    [kind |-> "json", ffmpeg |-> "/opt/ff/ffmpeg", ffprobe |-> "/opt/ff/ffprobe",
     encoders |-> <<JsonNumber, "nvenc">>, hwaccels |-> <<AccelHeader, "cuda">>,
     hwdecoders |-> <<"h264_cuvid">>, typed |-> TRUE]
EnvCacheFiles ==
    {NoFile, Garbage, MixedFile} \cup
    {c \in JsonFiles :
        \/ c.typed /\ c.ffmpeg # "" /\ (c.ffprobe = "") = (c.encoders = <<>>)
        \/ c.typed /\ c.ffmpeg = "" /\ c.ffprobe = "" /\ c.encoders # <<>>
        \/ ~c.typed /\ c.ffmpeg # "" /\ c.ffprobe # "" /\ c.encoders # <<>>}

T(h, m, sec) == <<h, ":", m, ":", sec>>

Request(input, start, duration, mode, output, convert_mp4) ==
    [input |-> input, start |-> start, duration |-> duration, mode |-> mode,
     output |-> output, convert_mp4 |-> convert_mp4, dry_run |-> FALSE]

Digits(n) == [kind |-> "digits", val |-> n]
NoAnswer == [kind |-> "error", val |-> 0]
NotDigits == [kind |-> "text", val |-> 0]
Codec(name) == [kind |-> "text", name |-> name]
NoCodec == [kind |-> "error", name |-> ""]

Answers(codec, stream, container) ==
    [codec |-> codec, stream |-> stream, container |-> container]

Call(req, ans) == [req |-> req, ans |-> ans]

PreciseMp4 ==
    Request(<<"clip", ".", "mkv">>, T("00", "00", "10"), <<>>, "precise", <<>>, TRUE)
PreciseHevc ==
    Request(<<"clip", ".", "mkv">>, T("00", "00", "10"), <<"5">>, "precise", <<>>, FALSE)
FastCopy ==
    Request(<<"/", "v", "/", "a", ".", "mov">>, T("00", "00", "10"), <<"5">>, "fast",
            <<>>, FALSE)

\* a request whose mode is neither fast nor precise
SlowCopy ==
    Request(<<"clip", ".", "mkv">>, T("00", "00", "10"), <<>>, "slow", <<>>, FALSE)

PlanCalls ==
    {Call(PreciseMp4, Answers(Codec("h264"), Digits(5000000), NoAnswer)),
     Call(PreciseHevc, Answers(NoCodec, NotDigits, NoAnswer)),
     Call(SlowCopy, Answers(Codec("h264"), Digits(5000000), NoAnswer)),
     Call(FastCopy, Answers(Codec("h264"), NotDigits, NoAnswer))}

----------------------------------------------------------------------------
(* The environment specification: state.py's operations on a machine whose
   engines come and go *)

Init == InitWith(EnvCacheFiles, [EnginePaths -> EnvBuilds], {Call(PreciseMp4, Answers(NoCodec, NoAnswer, NoAnswer))})

Next ==
    \/ \E f \in EnginePaths, p \in {"", "/opt/ff/ffprobe"}, h \in {{}, {NvInfo}},
          t \in ToolsChoices, o \in SaveOutcomes :
            SetEnvironment(f, p, h, t, o)
    \/ \E t \in ToolsChoices : LoadEnvironment(t)
    \/ \E f \in EnginePaths, b \in EnvBuilds : EngineChange(f, b)

Spec == Init /\ [][Next]_vars

----------------------------------------------------------------------------
(* The plan specification: requests are built into plans and commands, the
   caller setting the engine path in between *)

InitPlan == InitWith(EnvCacheFiles, [EnginePaths -> EnvBuilds], PlanCalls)

NextPlan ==
    \/ \E c \in PlanCalls : Submit(c)
    \/ \E t \in ToolsChoices, o \in SaveOutcomes : Construct(t, o)
    \/ BuildCommand
    \/ \E f \in EnginePaths \cup {""} : SetEnvironment(f, "", {}, NoTools, "ok")

SpecPlan == InitPlan /\ [][NextPlan]_vars

----------------------------------------------------------------------------
(* The selection specification: plans are built on every capability snapshot
   the caller's set_environment(path, probe, hwinfo) or a probe can have left *)

HwEncoderSet == SeqRange(HwEncoders)
AccelNames == {"cuda", "d3d11va", "dxva2", "qsv", "vaapi", "videotoolbox"}
DecoderNames == {"h264_cuvid", "h264_d3d11va", "h264_dxva2", "h264_qsv", "h264_vaapi",
                 "h264_videotoolbox", "hevc_cuvid"}

\* every encoder set with every acceleration set, and every decoder set with
\* the encoder and acceleration sets that reach each acceleration
SelectInfos ==
    [encoders : SUBSET HwEncoderSet, hwaccels : SUBSET AccelNames, hwdecoders : {{}}]
    \cup
    [encoders : {{}} \cup {{e} : e \in HwEncoderSet},
     hwaccels : {{}, AccelNames} \cup {{a} : a \in AccelNames},
     hwdecoders : SUBSET DecoderNames]

SelectCalls ==
    {Call(PreciseMp4, Answers(Codec("h264"), Digits(5000000), NoAnswer)),
     Call(PreciseHevc, Answers(Codec("HEVC"), NoAnswer, Digits(4000999))),
     Call(PreciseMp4, Answers(NoCodec, NoAnswer, NoAnswer)),
     Call(FastCopy, Answers(Codec("h264"), NotDigits, NoAnswer))}

InitSelect ==
    /\ pending \in SelectCalls
    /\ FFMPEG_PATH \in EnginePaths
    /\ FFPROBE_PATH = "ffprobe"
    /\ HARDWARE_INFO \in SelectInfos
    /\ FFMPEG_PATH = "ffmpeg" \/
          (HARDWARE_INFO.hwdecoders = {} /\ Cardinality(HARDWARE_INFO.encoders) <= 1)
    /\ pending.ans.codec = Codec("HEVC") => HARDWARE_INFO.hwdecoders # {}
    /\ pending.req.mode = "fast" => HARDWARE_INFO.hwdecoders = {}
    /\ cacheFile = NoFile
    /\ engines \in {[f \in EnginePaths |-> b] : b \in Builds}
    /\ HARDWARE_INFO.encoders # {} => engines = [f \in EnginePaths |-> SoftBuild]
    /\ args = <<>>
    /\ cmd = <<>>
    /\ lastOp = "init"
    /\ call = NoCall
    /\ written = NoWrite
    /\ prevCmd = <<>>
    /\ adopted = {}

NextSelect ==
    \/ \E t \in ToolsChoices, o \in SaveOutcomes : Construct(t, o)
    \/ BuildCommand

SpecSelect == InitSelect /\ [][NextSelect]_vars

----------------------------------------------------------------------------
(* The rate specification: Precise-mode plans over the answers the source
   bit-rate probe can give, with and without a probe tool *)

NamedBps == {100000, 4000000, 4000999, 5000000}
StreamAnswers ==
    {NoAnswer, NotDigits} \cup {Digits(n) : n \in (0..MaxProbeBps) \cup NamedBps}
ContainerAnswers == {NoAnswer, NotDigits, Digits(0), Digits(1999), Digits(4000999)}

RateCalls ==
    {Call(PreciseMp4, Answers(Codec("h264"), st, NoAnswer)) : st \in StreamAnswers}
    \cup {Call(PreciseHevc, Answers(Codec("h264"), st, co)) :
            st \in {NoAnswer, NotDigits, Digits(0)}, co \in ContainerAnswers}
    \cup {Call(FastCopy, Answers(Codec("h264"), Digits(5000000), NoAnswer))}

InitRate ==
    InitWith({NoFile}, {[f \in EnginePaths |-> SoftBuild]}, RateCalls)

NextRate ==
    \/ Construct(NoTools, "ok")
    \/ BuildCommand
    \/ \E t \in ToolsChoices : SetEnvironment("ffmpeg", "", {}, t, "ok")

SpecRate == InitRate /\ [][NextRate]_vars

----------------------------------------------------------------------------
(* The path specification: plans over user-supplied and defaulted output
   paths *)

OutTokens == {"out", ".", "/", "mp4", "MP4", "mkv"}
OutputPaths == SeqsUpTo(OutTokens, MaxOutLen) \ {<<>>}
PathInputs ==
    {<<"clip", ".", "mkv">>, <<"/", "v", "/", "a", ".", "mov">>,
     <<"v", ".", "d", "/", "noext">>, <<".", "hidden">>,
     <<"up", "/", ".", ".", "/", "b", ".", "Mkv">>}

PathRequests ==
    {Request(i, t[1], t[2], m, <<>>, c) :
        i \in PathInputs, m \in {"fast", "precise"}, c \in BOOLEAN,
        t \in {<<T("00", "00", "10"), <<>> >>, <<<<"10", ".", "5">>, <<"1", ":", "30">> >>}}
    \cup
    {Request(<<"clip", ".", "mkv">>, T("00", "00", "10"), <<>>, "fast", o, c) :
        o \in OutputPaths, c \in BOOLEAN}

InitPath ==
    InitWith({NoFile}, {[f \in EnginePaths |-> NvBuild]},
             {Call(r, Answers(Codec("h264"), Digits(5000000), NoAnswer)) : r \in PathRequests})

NextPath ==
    \/ \E o \in SaveOutcomes : Construct(NoTools, o)
    \/ BuildCommand

SpecPath == InitPath /\ [][NextPath]_vars

----------------------------------------------------------------------------
(* Claims *)

Plan == args[1]
Constructed == lastOp = "construct"
Built == lastOp = "build_command"

\* the position of e in the fixed order nvenc > amf > qsv > vaapi > videotoolbox
Rank(e) ==
    CASE e = "nvenc" -> 1
      [] e = "amf" -> 2
      [] e = "qsv" -> 3
      [] e = "vaapi" -> 4
      [] e = "videotoolbox" -> 5

\* C1: when the encoder set is a subset of {nvenc, amf, qsv, vaapi,
\* videotoolbox}, the plan just constructed has as chosen encoder the member
\* of the (re-probed) encoder set that no other member precedes in the order
\* nvenc > amf > qsv > vaapi > videotoolbox, and has cpu exactly when the set
\* is empty.
C1_HighestPriorityEncoder ==
    (Constructed /\ HARDWARE_INFO.encoders \subseteq HwEncoderSet) =>
        /\ (Plan.chosen_encoder = "cpu") <=> (HARDWARE_INFO.encoders = {})
        /\ HARDWARE_INFO.encoders # {} =>
              /\ Plan.chosen_encoder \in HARDWARE_INFO.encoders
              /\ \A e \in HARDWARE_INFO.encoders : Rank(Plan.chosen_encoder) <= Rank(e)

C1_Witness ==
    /\ Constructed
    /\ HARDWARE_INFO.encoders = {"qsv", "vaapi", "videotoolbox"}
    /\ Plan.chosen_encoder = "qsv"

\* the candidate lists as the specification gives them
Candidates(encoder) ==
    CASE encoder = "nvenc" -> <<"cuda">>
      [] encoder = "amf" -> <<"d3d11va", "dxva2">>
      [] encoder = "qsv" -> <<"qsv", "d3d11va", "dxva2">>
      [] encoder = "vaapi" -> <<"vaapi">>
      [] encoder = "videotoolbox" -> <<"videotoolbox">>
      [] encoder = "cpu" -> <<>>

\* x is the first element of list q that is in S
FirstPresent(x, q, S) ==
    \E i \in 1..Len(q) :
        /\ q[i] = x
        /\ x \in S
        /\ \A j \in 1..(i - 1) : q[j] \notin S

\* C2: the chosen acceleration of the plan just constructed is absent, or is
\* the first name of the chosen encoder's candidate list that the engine's
\* hwaccel set holds; it is absent when the chosen encoder is cpu.
C2_HwaccelFromCandidates ==
    Constructed =>
        /\ \/ Plan.chosen_hwaccel = ""
           \/ FirstPresent(Plan.chosen_hwaccel, Candidates(Plan.chosen_encoder),
                           HARDWARE_INFO.hwaccels)
        /\ Plan.chosen_encoder = "cpu" => Plan.chosen_hwaccel = ""

C2_Witness ==
    /\ Constructed
    /\ Plan.chosen_encoder = "qsv"
    /\ Plan.chosen_hwaccel = "d3d11va"
    /\ {"cuda", "dxva2", "vaapi"} \subseteq HARDWARE_INFO.hwaccels

\* the decoder suffixes tried for an acceleration, in order
Suffixes(hwaccel) ==
    CASE hwaccel = "cuda" -> <<"cuvid">>
      [] hwaccel \in {"d3d11va", "dxva2"} -> <<"d3d11va", "dxva2">>
      [] hwaccel \in {"qsv", "vaapi", "videotoolbox"} -> <<hwaccel>>
      [] OTHER -> <<>>

DecoderFor(codec, hwaccel) ==
    [i \in 1..Len(Suffixes(hwaccel)) |-> codec \o "_" \o Suffixes(hwaccel)[i]]

\* C3: the chosen hardware decoder of the plan just constructed is set only
\* if the chosen acceleration is set and the source codec is known, and is
\* then the first of {codec}_{suffix}, over the acceleration's suffixes in
\* order, that the engine's hwdecoder set holds; it is absent when the
\* acceleration is absent, the codec unknown or no such name is in the set.
C3_HwdecoderFromAccel ==
    Constructed =>
        LET names == DecoderFor(Plan.source_codec_name, Plan.chosen_hwaccel)
            usable == /\ Plan.chosen_hwaccel # ""
                      /\ Plan.source_codec_name # ""
                      /\ \E i \in 1..Len(names) : names[i] \in HARDWARE_INFO.hwdecoders
        IN  /\ usable => FirstPresent(Plan.chosen_hwdecoder, names, HARDWARE_INFO.hwdecoders)
            /\ ~usable => Plan.chosen_hwdecoder = ""

C3_Witness ==
    /\ Constructed
    /\ Plan.chosen_hwaccel = "dxva2"
    /\ Plan.chosen_hwdecoder = "h264_d3d11va"
    /\ "h264_dxva2" \in HARDWARE_INFO.hwdecoders

\* what the source bit-rate probe returned to the constructor
Probed ==
    probe_source_bitrate_bps(FFPROBE_PATH, pending.ans.stream, pending.ans.container)

\* C4: a Precise-mode plan just constructed has a source bit rate above 0: it
\* is exactly 100000 when the probe returned 0, as it does when no probe tool
\* path is set, and is the probe's value when that is positive.
C4_PreciseBitrateFloor ==
    (Constructed /\ Plan.mode = "precise") =>
        /\ Plan.source_bitrate_bps > 0
        /\ Probed = 0 => Plan.source_bitrate_bps = 100000
        /\ Probed > 0 => Plan.source_bitrate_bps = Probed
        /\ FFPROBE_PATH = "" => Plan.source_bitrate_bps = 100000

C4_Witness ==
    /\ Constructed
    /\ Plan.mode = "precise"
    /\ FFPROBE_PATH = ""
    /\ pending.ans.stream = Digits(5000000)
    /\ Plan.source_bitrate_bps = 100000

\* cmd holds the sequence part from some position on
Holds(part) ==
    \E i \in 1..(Len(cmd) - Len(part) + 1) : SubSeq(cmd, i, i + Len(part) - 1) = part

\* C5: a Precise-mode command holds -b:v {B}k -maxrate {M}k -bufsize {S}k
\* with B = floor(bps / 1000), M = floor(B * 12 / 10) and S = B * 2 for the
\* plan's source bit rate bps; 5000000 gives 5000k, 6000k, 10000k, and a B of
\* 4000 gives 4800k and 8000k.
C5_RateControlArithmetic ==
    (Built /\ Plan.mode = "precise") =>
        LET B == Plan.source_bitrate_bps \div 1000
            M == (B * 12) \div 10
            S == B * 2
        IN  /\ Holds(<<"-b:v", ToString(B) \o "k", "-maxrate", ToString(M) \o "k",
                       "-bufsize", ToString(S) \o "k">>)
            /\ Plan.source_bitrate_bps = 5000000 =>
                  Holds(<<"-b:v", "5000k", "-maxrate", "6000k", "-bufsize", "10000k">>)
            /\ B = 4000 =>
                  Holds(<<"-b:v", "4000k", "-maxrate", "4800k", "-bufsize", "8000k">>)

C5_Witness ==
    /\ Built
    /\ Plan.mode = "precise"
    /\ Plan.source_bitrate_bps = 1999
    /\ Holds(<<"-b:v", "1k", "-maxrate", "1k", "-bufsize", "2k">>)

\* the request the plan was made from
Given == pending.req.output

\* path ends in .mp4, whatever the letter case of the mp4
EndsInMp4(path) ==
    /\ Len(path) >= 2
    /\ path[Len(path) - 1] = "."
    /\ LowerTok(path[Len(path)]) = "mp4"

\* C6 as stated: with compatibilityMp4 the resolved output path has the
\* extension .mp4, and a user-supplied extension is replaced by it, neither
\* kept nor appended to.
C6_ExtensionIsMp4 ==
    (Constructed /\ Plan.convert_mp4) =>
        /\ Splitext(Plan.output)[2] = <<".", "mp4">>
        /\ Given # <<>> => Plan.output = Splitext(Given)[1] \o <<".", "mp4">>

\* C6, amended: with compatibilityMp4 the resolved output path ends in .mp4
\* up to letter case.  A defaulted path has the extension .mp4 exactly.  A
\* user-supplied path whose extension is .mp4 in any letter case is kept as
\* supplied; any other user-supplied extension is replaced, never appended
\* to, and a path without an extension gets .mp4 added to it.
C6_ExtensionIsMp4UpToCase ==
    (Constructed /\ Plan.convert_mp4) =>
        /\ EndsInMp4(Plan.output)
        /\ Given = <<>> => Splitext(Plan.output)[2] = <<".", "mp4">>
        /\ Given # <<>> =>
              IF Lower(Splitext(Given)[2]) = <<".", "mp4">>
              THEN Plan.output = Given
              ELSE Plan.output = Splitext(Given)[1] \o <<".", "mp4">>

C6_Witness ==
    /\ Constructed
    /\ Plan.convert_mp4
    /\ Given = <<"out", ".", "MP4">>
    /\ Plan.output = <<"out", ".", "MP4">>

\* C7: whatever the mode and the chosen encoder, the command built from a
\* constructed plan is not empty, starts with the engine path the state holds
\* and ends with the plan's resolved output path.
C7_CommandEnds ==
    Built =>
        /\ cmd # <<>>
        /\ cmd[1] = FFMPEG_PATH
        /\ cmd[Len(cmd)] = Str(Plan.output)

C7_Witness ==
    /\ Built
    /\ Plan.mode = "precise"
    /\ Plan.chosen_encoder = "amf"
    /\ FFMPEG_PATH = "/opt/ff/ffmpeg"
    /\ cmd[1] = "/opt/ff/ffmpeg"
    /\ Len(cmd) > 20

\* C8: a plan built and turned into a command a second time, from the same
\* request with the same probe answers and nothing done to the state in
\* between, gives the command the first build gave, also when the first
\* build started with no encoders and re-probed.
C8_RepeatBuildSameCommand ==
    (Built /\ prevCmd # <<>>) => cmd = prevCmd

\* the cache file holds the paths and capabilities of state st
HoldsState(file, st) ==
    /\ file.kind = "json"
    /\ file.ffmpeg = st.ffmpeg
    /\ file.ffprobe = st.ffprobe
    /\ SeqRange(file.encoders) = st.hw.encoders
    /\ SeqRange(file.hwaccels) = st.hw.hwaccels
    /\ SeqRange(file.hwdecoders) = st.hw.hwdecoders

\* C9 as stated: every record set_environment writes has encoders; a call
\* that adopts no encoders leaves the cache file as it was; a call that
\* adopts encoders leaves a cache file that holds the in-memory state.
C9_NeverPersistsEmpty ==
    [][lastOp' = "set_environment" =>
          /\ written'.saved => written'.data.encoders # <<>>
          /\ HARDWARE_INFO'.encoders = {} => cacheFile' = cacheFile
          /\ HARDWARE_INFO'.encoders # {} => HoldsState(cacheFile', State')]_vars

\* C9, amended: every record set_environment tries to write has encoders and
\* equals the in-memory state; a call that returns having adopted no encoders
\* tries no write and leaves the cache file as it was; a call that returns
\* having adopted encoders tries one, after which the file holds the
\* in-memory state when the write went through, is as it was when the file
\* could not be opened, and holds no record when the write broke off; a call
\* that raises leaves the cache file as it was.
C9_NeverPersistsEmptyBestEffort ==
    [][/\ lastOp' = "set_environment_raised" => (~written'.saved /\ cacheFile' = cacheFile)
       /\ lastOp' = "set_environment" =>
          /\ written'.saved => (written'.data.encoders # <<>> /\ HoldsState(written'.data, State'))
          /\ HARDWARE_INFO'.encoders = {} => (~written'.saved /\ cacheFile' = cacheFile)
          /\ HARDWARE_INFO'.encoders # {} =>
                /\ written'.saved
                /\ written'.outcome = "ok" => HoldsState(cacheFile', State')
                /\ written'.outcome = "open_fails" => cacheFile' = cacheFile
                /\ written'.outcome = "write_fails" => cacheFile'.kind = "garbage"]_vars

C9_Witness ==
    /\ lastOp = "set_environment"
    /\ HARDWARE_INFO.encoders = {"nvenc"}
    /\ written.saved
    /\ written.outcome = "write_fails"
    /\ cacheFile.kind = "garbage"

\* C10: after set_environment(ffmpeg_path, ffprobe_path, hwinfo) the state's
\* engine path is ffmpeg_path and its probe-tool path is ffprobe_path or,
\* when that is empty, the one found from ffmpeg_path, whichever branch the
\* call took.
C10_PathsAreSupplied ==
    lastOp = "set_environment" =>
        /\ FFMPEG_PATH = call.ffmpeg_path
        /\ FFPROBE_PATH = IF call.ffprobe_path # "" THEN call.ffprobe_path
                          ELSE find_ffprobe(call.tools, call.ffmpeg_path)

\* C11: constructing a plan fails if and only if the state holds no engine
\* path when construction starts; from every other state, whatever the
\* capabilities, the probe tool and the probes' answers, it yields a plan
\* with a chosen encoder.
C11_FatalIffNoEnginePath ==
    [][lastOp' \in {"construct", "construct_failed"} =>
          /\ (lastOp' = "construct_failed") <=> (FFMPEG_PATH = "")
          /\ lastOp' = "construct" =>
                /\ args' # <<>>
                /\ args'[1].chosen_encoder \in SeqRange(PREFERRED_ENCODERS)]_vars

\* C12: build_command on a plan whose mode is neither fast nor precise, or
\* whose mode is precise and whose chosen encoder is none of nvenc, amf, qsv,
\* vaapi, videotoolbox, cpu, fails and returns no command: no command comes
\* back that lacks the video section or the tuning flags.
C12_UnknownModeIsFatal ==
    (Built /\ \/ Plan.mode \notin {"fast", "precise"}
              \/ /\ Plan.mode = "precise"
                 /\ Plan.chosen_encoder \notin SeqRange(PREFERRED_ENCODERS)) =>
        cmd = <<>>

\* the first position of x in cmd, 0 when cmd does not hold x
IndexOf(x) ==
    IF \E i \in 1..Len(cmd) : cmd[i] = x
    THEN CHOOSE i \in 1..Len(cmd) : cmd[i] = x /\ \A j \in 1..(i - 1) : cmd[j] # x
    ELSE 0

\* the positions of -c:v past the input
OutputSideVideo == {j \in 1..Len(cmd) : j > IndexOf("-i") /\ cmd[j] = "-c:v"}

\* C13: a Precise-mode command has one -c:v after the input, followed by
\* h264_E (compatibility) or hevc_E (otherwise) for a hardware encoder E and
\* by libx264 (compatibility) or libx265 (otherwise) for cpu; nvenc with
\* compatibility gives h264_nvenc.
C13_EncoderName ==
    (Built /\ Plan.mode = "precise") =>
        LET tag == IF Plan.convert_mp4 THEN "h264" ELSE "hevc"
            expected == IF Plan.chosen_encoder = "cpu"
                        THEN (IF Plan.convert_mp4 THEN "libx264" ELSE "libx265")
                        ELSE tag \o "_" \o Plan.chosen_encoder
        IN  /\ IndexOf("-i") > 0
            /\ Cardinality(OutputSideVideo) = 1
            /\ \A j \in OutputSideVideo : cmd[j + 1] = expected
            /\ (Plan.chosen_encoder = "nvenc" /\ Plan.convert_mp4) =>
                  \A j \in OutputSideVideo : cmd[j + 1] = "h264_nvenc"

C13_Witness ==
    /\ Built
    /\ Plan.mode = "precise"
    /\ ~Plan.convert_mp4
    /\ Plan.chosen_encoder = "nvenc"
    /\ Plan.chosen_hwdecoder = "hevc_cuvid"
    /\ \E j \in OutputSideVideo : cmd[j + 1] = "hevc_nvenc"

\* cmd holds the sequence part from position i on
HoldsAt(i, part) ==
    /\ i >= 1
    /\ i + Len(part) - 1 <= Len(cmd)
    /\ SubSeq(cmd, i, i + Len(part) - 1) = part

\* -t and the duration stand at position i exactly when a duration is given,
\* and the rest of the command starts with part
ThenDuration(i, part) ==
    IF Plan.duration # <<>>
    THEN HoldsAt(i, <<"-t", Str(Plan.duration)>> \o part)
    ELSE HoldsAt(i, part) /\ IndexOf("-t") = 0

\* C14: a Fast-mode command has -ss and the start right after the engine
\* path and -i and the input after them, and as video section -c:v copy
\* without compatibility and -c:v libx264 -preset veryfast -crf 20 with it; a
\* Precise-mode command has -i and the input before -ss and the start; in
\* both, -t and the duration follow exactly when a duration is given.
C14_SeekAndInputOrder ==
    Built =>
        /\ Plan.mode = "fast" =>
              /\ HoldsAt(2, <<"-ss", Str(Plan.start), "-i", Str(Plan.input)>>)
              /\ ThenDuration(6, IF Plan.convert_mp4
                                 THEN <<"-c:v", "libx264", "-preset", "veryfast",
                                        "-crf", "20", "-c:a">>
                                 ELSE <<"-c:v", "copy", "-c:a">>)
        /\ Plan.mode = "precise" =>
              /\ IndexOf("-i") > 0
              /\ IndexOf("-ss") = IndexOf("-i") + 2
              /\ HoldsAt(IndexOf("-i"), <<"-i", Str(Plan.input), "-ss", Str(Plan.start)>>)
              /\ ThenDuration(IndexOf("-i") + 4, <<"-c:v">>)

C14_Witness ==
    /\ Built
    /\ Plan.mode = "fast"
    /\ Plan.convert_mp4
    /\ Plan.duration = <<"1", ":", "30">>
    /\ HoldsAt(2, <<"-ss", "10.5", "-i", "/home/b.Mkv", "-t", "1:30", "-c:v", "libx264">>)

\* what plan building is said to leave alone
Env == <<FFMPEG_PATH, FFPROBE_PATH, HARDWARE_INFO, cacheFile>>

PlanBuilding == {"construct", "construct_failed", "build_command"}

\* C15 as stated: constructing a plan and building its command leave the
\* engine path, the probe-tool path, the capabilities and the cache file as
\* they were, from every state and for every request.
C15_PlanBuildingOnlyReads ==
    [][lastOp' \in PlanBuilding => UNCHANGED Env]_vars

\* C15, amended: build_command leaves the state and the cache file as they
\* were, and so does construction from a state without engine path or with
\* encoders.  Construction from a state with an engine path and no encoders
\* probes again: state and cache file are then what
\* setEnvironment(enginePath, probeToolPath) leaves from there.  When that
\* ends with encoders, the engine path is as before and so is a probe-tool
\* path that was set; when it ends without, the cache file is as before.
C15_PlanBuildingReadsUnlessReprobe ==
    [][lastOp' \in PlanBuilding =>
          /\ lastOp' = "build_command" => UNCHANGED Env
          /\ (FFMPEG_PATH = "" \/ HARDWARE_INFO.encoders # {}) => UNCHANGED Env
          /\ (FFMPEG_PATH # "" /\ HARDWARE_INFO.encoders = {} /\ lastOp' # "build_command") =>
                \E t \in ToolsChoices, o \in SaveOutcomes :
                    \E r \in {set_environment(State, FFMPEG_PATH, FFPROBE_PATH, {},
                                              cacheFile, engines, t, o)} :
                        /\ FFMPEG_PATH' = r.st.ffmpeg
                        /\ FFPROBE_PATH' = r.st.ffprobe
                        /\ HARDWARE_INFO' = r.st.hw
                        /\ cacheFile' = r.file
          /\ HARDWARE_INFO'.encoders # {} =>
                /\ FFMPEG_PATH' = FFMPEG_PATH
                /\ FFPROBE_PATH # "" => FFPROBE_PATH' = FFPROBE_PATH
          /\ HARDWARE_INFO'.encoders = {} => cacheFile' = cacheFile]_vars

C15_Witness ==
    /\ Constructed
    /\ call.reprobed
    /\ HARDWARE_INFO.encoders = {"nvenc"}
    /\ written.saved
    /\ written.outcome = "ok"
    /\ cacheFile = written.data
    /\ Plan.chosen_encoder = "nvenc"

\* C16: once a set_environment call has left encoders in the state, every
\* later set_environment call whose probe finds no encoders leaves the state
\* with the encoder set the last such call left.
C16_ProfileSurvivesEmptyProbe ==
    [][(/\ adopted # {}
        /\ lastOp' = "set_environment"
        /\ call'.detected.encoders = {}) =>
          HARDWARE_INFO'.encoders = adopted]_vars

\* the positions of cmd before the input
InputSide == 1..(IndexOf("-i") - 1)

\* C17: a Precise-mode command has -hwaccel with the chosen acceleration
\* before -i exactly when one is chosen, and then also a
\* -hwaccel_output_format declaration before -i, for each of cuda, d3d11va,
\* dxva2, qsv, vaapi and videotoolbox; it has -c:v with the chosen hardware
\* decoder before -i exactly when one is chosen; a Fast-mode command has none
\* of the three.
C17_HwaccelFlags ==
    Built =>
        /\ Plan.mode = "precise" =>
              /\ (Plan.chosen_hwaccel # "") <=> (\E k \in InputSide : cmd[k] = "-hwaccel")
              /\ \A k \in InputSide :
                    cmd[k] = "-hwaccel" =>
                        /\ cmd[k + 1] = Plan.chosen_hwaccel
                        /\ \E m \in InputSide :
                              /\ m + 1 \in InputSide
                              /\ cmd[m] = "-hwaccel_output_format"
              /\ (Plan.chosen_hwdecoder # "") <=> (\E k \in InputSide : cmd[k] = "-c:v")
              /\ \A k \in InputSide : cmd[k] = "-c:v" => cmd[k + 1] = Plan.chosen_hwdecoder
        /\ Plan.mode = "fast" =>
              /\ IndexOf("-hwaccel") = 0
              /\ IndexOf("-hwaccel_output_format") = 0
              /\ \A k \in InputSide : cmd[k] # "-c:v"

====
